---- MODULE Spec2Model ----
(***************************************************************************)
(* Model of cmd/api/main.go of namestnikoff/payment-system: the two HTTP   *)
(* handlers handleCreatePayment and handleGetPayment, the routes main      *)
(* registers, and the process-wide operational log they write to.          *)
(*                                                                         *)
(* Amounts are float64 in the program.  They are written here as integer   *)
(* counts of hundredths (1000.50 is 100050), which is exact for every      *)
(* amount the model uses.                                                  *)
(***************************************************************************)
EXTENDS Integers, Sequences, FiniteSets, TLC

\* Number of requests the server receives in one run.
MaxRequests == 2

\* Number of requests the server handles at the same time (net/http runs
\* one goroutine per connection).
MaxConc == 2

\* Number of requests received in one run of the concurrent specification.
MaxConcRequests == 3

StatusOK == 200
StatusCreated == 201
StatusBadRequest == 400
StatusMethodNotAllowed == 405

MethodPost == "POST"
MethodGet == "GET"

Methods == {MethodPost, MethodGet, "PUT"}

-----------------------------------------------------------------------------
(* JSON values of a request body *)

Absent == [t |-> "absent", n |-> 0, s |-> ""]
Num(n) == [t |-> "num", n |-> n, s |-> ""]
Str(s) == [t |-> "str", n |-> 0, s |-> s]

\* The Payment struct; ZeroPayment is the value of `var payment Payment`.
Payment == [ID : STRING, Amount : Int, Currency : STRING, Status : STRING,
            Description : STRING]

ZeroPayment ==
    [ID |-> "", Amount |-> 0, Currency |-> "", Status |-> "", Description |-> ""]

\* A JSON object of the request body, by the json tags of Payment: each key
\* is absent or carries a JSON number or a JSON string.
Objects ==
    [amount : {Absent, Num(-100), Num(0), Num(100), Num(100050), Str("100")},
     currency : {Absent, Str(""), Str("RUB"), Num(643)},
     id : {Absent, Str("pay_evil")},
     status : {Absent, Str("succeeded")},
     description : {Absent, Str("note")}]

EmptyObject ==
    [amount |-> Absent, currency |-> Absent, id |-> Absent, status |-> Absent,
     description |-> Absent]

\* A request body: its first JSON value (lead), and what follows that value
\* (trail).  lead is "empty" (no value at all before end of input), "junk"
\* (a first token that starts no JSON value), "open" (an object cut off
\* before its closing brace), "null", "array" or "object"; trail is "none"
\* or "junk" (white space, then text that is not JSON).
Body(lead, obj, trail) == [lead |-> lead, obj |-> obj, trail |-> trail]

Bodies ==
    {Body("empty", EmptyObject, "none"), Body("junk", EmptyObject, "none"),
     Body("open", EmptyObject, "none")}
    \cup {Body(l, EmptyObject, t) : l \in {"null", "array"}, t \in {"none", "junk"}}
    \cup {Body("object", o, t) : o \in Objects, t \in {"none", "junk"}}

\* The body is, as a whole, one syntactically valid JSON document.
IsValidJSON(body) ==
    /\ body.lead \in {"null", "array", "object"}
    /\ body.trail = "none"

-----------------------------------------------------------------------------
(* encoding/json as the handlers use it *)

NoErr == "nil"

ErrEOF == "EOF"
ErrUnexpectedEOF == "unexpected EOF"
ErrSyntax == "invalid character 'x' looking for beginning of value"
ErrUnmarshalType == "json: cannot unmarshal value into Go struct field"

DecodeErrors == {ErrEOF, ErrUnexpectedEOF, ErrSyntax, ErrUnmarshalType}

\* The JSON type a field of Payment takes.
FieldType(k) == IF k = "amount" THEN "num" ELSE "str"

TypeMismatch(obj) ==
    \E k \in DOMAIN obj : obj[k].t # "absent" /\ obj[k].t # FieldType(k)

\* Unmarshal of an object into the zero Payment: a key of the right type
\* sets its field, an absent key or one of the wrong type leaves it alone.
Unmarshal(obj) ==
    [ID |-> IF obj.id.t = "str" THEN obj.id.s ELSE "",
     Amount |-> IF obj.amount.t = "num" THEN obj.amount.n ELSE 0,
     Currency |-> IF obj.currency.t = "str" THEN obj.currency.s ELSE "",
     Status |-> IF obj.status.t = "str" THEN obj.status.s ELSE "",
     Description |-> IF obj.description.t = "str" THEN obj.description.s ELSE ""]

\* json.NewDecoder(r.Body).Decode(&payment): reads the first JSON value of
\* the stream and unmarshals it; what follows that value is never read.
Decode(body) ==
    CASE body.lead = "empty" -> [err |-> ErrEOF, payment |-> ZeroPayment]
      [] body.lead = "junk" -> [err |-> ErrSyntax, payment |-> ZeroPayment]
      [] body.lead = "open" -> [err |-> ErrUnexpectedEOF, payment |-> ZeroPayment]
      [] body.lead = "array" -> [err |-> ErrUnmarshalType, payment |-> ZeroPayment]
      [] body.lead = "null" -> [err |-> NoErr, payment |-> ZeroPayment]
      [] body.lead = "object" ->
            [err |-> IF TypeMismatch(body.obj) THEN ErrUnmarshalType ELSE NoErr,
             payment |-> Unmarshal(body.obj)]

\* json.NewEncoder(w).Encode(payment): description has omitempty.
Encode(p) ==
    IF p.Description = ""
    THEN [id |-> p.ID, amount |-> p.Amount, currency |-> p.Currency,
          status |-> p.Status]
    ELSE [id |-> p.ID, amount |-> p.Amount, currency |-> p.Currency,
          status |-> p.Status, description |-> p.Description]

-----------------------------------------------------------------------------
(* responses *)

NoResp == [code |-> 0, ctype |-> "", body |-> [none |-> TRUE]]

\* http.Error(w, msg, code): a text/plain response whose body is the line msg.
HttpError(msg, code) ==
    [code |-> code, ctype |-> "text/plain; charset=utf-8", body |-> [line |-> msg]]

\* Header().Set("Content-Type", "application/json"); WriteHeader(code);
\* json.NewEncoder(w).Encode(payment)
JSONResponse(code, p) ==
    [code |-> code, ctype |-> "application/json", body |-> Encode(p)]

-----------------------------------------------------------------------------
(* requests *)

PathPayments == "/payments"
PathStatus == "/payments/status"

Request(path, method, body) == [path |-> path, method |-> method, body |-> body]

\* Every request the model sends to /payments, and a few to /payments/status
\* (handleGetPayment never reads the body).
Requests ==
    {Request(PathPayments, m, b) : m \in Methods, b \in Bodies}
    \cup {Request(PathStatus, m, b) :
            m \in Methods,
            b \in {Body("empty", EmptyObject, "none"),
                   Body("object", [EmptyObject EXCEPT !.id = Str("pay_evil")], "none")}}

\* The requests of the concurrent specification: creations that pass and
\* that fail validation, a body that fails to decode, and a status query.
ConcObjects ==
    [amount : {Num(0), Num(100), Num(100050)},
     currency : {Str("RUB")},
     id : {Absent},
     status : {Absent},
     description : {Absent}]

ConcRequests ==
    {Request(PathPayments, MethodPost, Body("object", o, "none")) : o \in ConcObjects}
    \cup {Request(PathPayments, MethodPost, Body("junk", EmptyObject, "none")),
          Request(PathStatus, MethodGet, Body("empty", EmptyObject, "none"))}

\* The routes main registers on the default mux.
Route(path) ==
    IF path = PathPayments THEN "handleCreatePayment" ELSE "handleGetPayment"

-----------------------------------------------------------------------------
(* state *)

VARIABLES
    conns,      \* conns[i]: the request connection i is handling, with the
                \* handler's position, locals (payment, err) and response
    log,        \* the lines written to the standard logger, oldest first
    nextId      \* number the next request gets (tags its log lines)

vars == <<conns, log, nextId>>

Idle ==
    [pc |-> "idle", id |-> 0, handler |-> "",
     req |-> Request("", "", Body("empty", EmptyObject, "none")),
     payment |-> ZeroPayment, err |-> NoErr, resp |-> NoResp]

Init ==
    /\ conns = [i \in 1..MaxConc |-> Idle]
    /\ log = <<>>
    /\ nextId = 1

\* The server accepts a request on connection i and calls its handler.
Serve(i, reqs, max) ==
    /\ conns[i].pc = "idle"
    /\ nextId <= max
    /\ \E r \in reqs :
          conns' = [conns EXCEPT ![i] =
                      [Idle EXCEPT !.pc = "start", !.id = nextId,
                                   !.handler = Route(r.path), !.req = r]]
    /\ nextId' = nextId + 1
    /\ UNCHANGED log

\* The handler has returned and the response is on the wire.
Finish(i) ==
    /\ conns[i].pc = "done"
    /\ conns' = [conns EXCEPT ![i] = Idle]
    /\ UNCHANGED <<log, nextId>>

-----------------------------------------------------------------------------
(* handleCreatePayment *)

\* Variant: only GET is turned away.
CreateAcceptsAllButGet(method) == method # MethodGet

CreateAccepts(method) == method = MethodPost

\* if r.Method != http.MethodPost { http.Error(...); return }
CreateCheckMethod(i) ==
    /\ conns[i].pc = "start"
    /\ conns[i].handler = "handleCreatePayment"
    /\ IF CreateAccepts(conns[i].req.method)
       THEN conns' = [conns EXCEPT ![i].pc = "decode"]
       ELSE conns' = [conns EXCEPT
                        ![i].pc = "done",
                        ![i].resp = HttpError("Invalid method", StatusMethodNotAllowed)]
    /\ UNCHANGED <<log, nextId>>

\* var payment Payment; err := json.NewDecoder(r.Body).Decode(&payment)
CreateDecode(i) ==
    /\ conns[i].pc = "decode"
    /\ LET d == Decode(conns[i].req.body)
       IN conns' = [conns EXCEPT
                      ![i].payment = d.payment,
                      ![i].err = d.err,
                      ![i].pc = IF d.err # NoErr THEN "decodeFailed" ELSE "validate"]
    /\ UNCHANGED <<log, nextId>>

\* log.Printf("Error decoding JSON: %v", err)
DecodeErrorLog(id, err) ==
    <<[req |-> id, msg |-> "Error decoding JSON", err |-> err]>>

CreateLogDecodeError(i) ==
    /\ conns[i].pc = "decodeFailed"
    /\ log' = log \o DecodeErrorLog(conns[i].id, conns[i].err)
    /\ conns' = [conns EXCEPT ![i].pc = "rejectJSON"]
    /\ UNCHANGED nextId

\* Variant: the decoder's error text is sent to the caller.
DecodeErrorMessageDetail(err) == err

\* The message sent for a decode error err.
DecodeErrorMessage(err) == "Invalid JSON"

\* http.Error(w, "Invalid JSON", http.StatusBadRequest); return
CreateRejectJSON(i) ==
    /\ conns[i].pc = "rejectJSON"
    /\ conns' = [conns EXCEPT
                   ![i].pc = "done",
                   ![i].resp = HttpError(DecodeErrorMessage(conns[i].err),
                                         StatusBadRequest)]
    /\ UNCHANGED <<log, nextId>>

\* Variant: the currency check runs before the amount check.
ValidateCurrencyFirst(p) ==
    IF p.Currency = "" THEN "Currency is required"
    ELSE IF p.Amount <= 0 THEN "Amount must be positive"
    ELSE ""

\* Variant: the currency check is missing.
ValidateAmountOnly(p) ==
    IF p.Amount <= 0 THEN "Amount must be positive" ELSE ""

\* Variant: the amount check is < 0, so a zero amount passes.
ValidateNonNegative(p) ==
    IF p.Amount < 0 THEN "Amount must be positive"
    ELSE IF p.Currency = "" THEN "Currency is required"
    ELSE ""

\* The two validation checks, in the code's order: the message of the first
\* one that fails, "" when both pass.
Validate(p) ==
    IF p.Amount <= 0 THEN "Amount must be positive"
    ELSE IF p.Currency = "" THEN "Currency is required"
    ELSE ""

\* Variant: the id is numbered by what the process has logged so far.
NewPaymentIDCounter == IF Len(log) = 0 THEN "pay_12345" ELSE "pay_12346"

\* payment.ID = fmt.Sprintf("pay_%s", "12345")
NewPaymentID == "pay_12345"

\* Variant: an id the client sent is kept.
AssignServerFieldsKeepClientID(p) ==
    [p EXCEPT !.ID = IF p.ID = "" THEN "pay_12345" ELSE p.ID,
              !.Status = "pending"]

\* payment.ID = ...; payment.Status = "pending"
AssignServerFields(p) == [p EXCEPT !.ID = NewPaymentID, !.Status = "pending"]

\* Validation; on a failure http.Error and return, otherwise the id and the
\* status are assigned.
CreateValidate(i) ==
    /\ conns[i].pc = "validate"
    /\ LET msg == Validate(conns[i].payment)
       IN IF msg # ""
          THEN conns' = [conns EXCEPT
                           ![i].pc = "done",
                           ![i].resp = HttpError(msg, StatusBadRequest)]
          ELSE conns' = [conns EXCEPT
                           ![i].pc = "logCreated",
                           ![i].payment = AssignServerFields(conns[i].payment)]
    /\ UNCHANGED <<log, nextId>>

\* Variant: both the %+v line and the detailed line are written.
CreatedLogTwice(id, p) ==
    LET line == [req |-> id, msg |-> "Payment created", ID |-> p.ID,
                 Amount |-> p.Amount, Currency |-> p.Currency,
                 Status |-> p.Status, Description |-> p.Description]
    IN <<line, line>>

\* log.Printf("Payment created: ID=%s, Amount=%.2f %s, Status=%s, Description=%q", ...)
CreatedLog(id, p) ==
    <<[req |-> id, msg |-> "Payment created", ID |-> p.ID, Amount |-> p.Amount,
       Currency |-> p.Currency, Status |-> p.Status, Description |-> p.Description]>>

CreateLogCreated(i) ==
    /\ conns[i].pc = "logCreated"
    /\ log' = log \o CreatedLog(conns[i].id, conns[i].payment)
    /\ conns' = [conns EXCEPT ![i].pc = "respond"]
    /\ UNCHANGED nextId

\* Content-Type, WriteHeader(http.StatusCreated), Encode(payment)
CreateRespond(i) ==
    /\ conns[i].pc = "respond"
    /\ conns' = [conns EXCEPT
                   ![i].pc = "done",
                   ![i].resp = JSONResponse(StatusCreated, conns[i].payment)]
    /\ UNCHANGED <<log, nextId>>

-----------------------------------------------------------------------------
(* handleGetPayment *)

GetAccepts(method) == method = MethodGet

\* Variant: the status handler reports the payment created last.
MockPaymentLastCreated ==
    LET made == {k \in 1..Len(log) : log[k].msg = "Payment created"}
    IN IF made = {}
       THEN [ID |-> "pay_12345", Amount |-> 100050, Currency |-> "RUB",
             Status |-> "succeeded", Description |-> ""]
       ELSE LET last == log[CHOOSE k \in made : \A m \in made : m <= k]
            IN [ID |-> last.ID, Amount |-> last.Amount, Currency |-> last.Currency,
                Status |-> last.Status, Description |-> last.Description]

\* payment := Payment{ID: "pay_12345", Amount: 1000.50, Currency: "RUB",
\*                    Status: "succeeded"}
MockPayment ==
    [ID |-> "pay_12345", Amount |-> 100050, Currency |-> "RUB",
     Status |-> "succeeded", Description |-> ""]

GetPayment(i) ==
    /\ conns[i].pc = "start"
    /\ conns[i].handler = "handleGetPayment"
    /\ conns' = [conns EXCEPT
                   ![i].pc = "done",
                   ![i].resp = IF GetAccepts(conns[i].req.method)
                               THEN JSONResponse(StatusOK, MockPayment)
                               ELSE HttpError("Invalid method", StatusMethodNotAllowed)]
    /\ UNCHANGED <<log, nextId>>

-----------------------------------------------------------------------------
(* specifications *)

Handle(i) ==
    \/ CreateCheckMethod(i)
    \/ CreateDecode(i)
    \/ CreateLogDecodeError(i)
    \/ CreateRejectJSON(i)
    \/ CreateValidate(i)
    \/ CreateLogCreated(i)
    \/ CreateRespond(i)
    \/ GetPayment(i)
    \/ Finish(i)

\* One request at a time, every request of Requests.
Next ==
    \/ Serve(1, Requests, MaxRequests)
    \/ Handle(1)

Spec == Init /\ [][Next]_vars

\* MaxConc requests at a time, the requests of ConcRequests.
NextConc ==
    \E i \in 1..MaxConc :
        \/ Serve(i, ConcRequests, MaxConcRequests)
        \/ Handle(i)

SpecConc == Init /\ [][NextConc]_vars

-----------------------------------------------------------------------------
(* properties *)

Conns == DOMAIN conns

Done(i) == conns[i].pc = "done"

CreateHandled(i) == Done(i) /\ conns[i].handler = "handleCreatePayment"

GetHandled(i) == Done(i) /\ conns[i].handler = "handleGetPayment"

\* What the body of connection i's request decodes to.
Decoded(i) == Decode(conns[i].req.body)

DecodesOK(i) == Decoded(i).err = NoErr

\* Number of log lines with message msg written for request id.
Lines(id, msg) ==
    Cardinality({k \in 1..Len(log) : log[k].req = id /\ log[k].msg = msg})

AmountMessage == HttpError("Amount must be positive", 400)
CurrencyMessage == HttpError("Currency is required", 400)
JSONMessage == HttpError("Invalid JSON", 400)
MethodMessage == HttpError("Invalid method", 405)

\* C1: a POST to create-payment whose body decodes successfully with
\* amount <= 0 is answered 400 "Amount must be positive", whatever the other
\* fields are, an empty currency included.
AmountCheckedFirst ==
    \A i \in Conns :
        (/\ CreateHandled(i)
         /\ conns[i].req.method = "POST"
         /\ DecodesOK(i)
         /\ Decoded(i).payment.Amount <= 0)
        => conns[i].resp = AmountMessage

\* C1 witness: a request with a negative amount and an empty currency has been
\* answered with the amount message.
AmountCheckedFirstWitness ==
    \E i \in Conns :
        /\ CreateHandled(i)
        /\ conns[i].req.method = "POST"
        /\ conns[i].req.body.lead = "object"
        /\ conns[i].req.body.obj.amount = Num(-100)
        /\ conns[i].req.body.obj.currency = Str("")
        /\ conns[i].resp = AmountMessage

\* C2: a POST to create-payment whose body is not, as a whole, a valid JSON
\* document is answered 400 "Invalid JSON"; no 201 and no Payment is produced.
InvalidJSONRejected ==
    \A i \in Conns :
        (/\ CreateHandled(i)
         /\ conns[i].req.method = "POST"
         /\ ~IsValidJSON(conns[i].req.body))
        => conns[i].resp = JSONMessage

\* C3: in every 201 response the id is "pay_12345" and the status "pending",
\* whatever id and status the request body carried.
ServerAssignsIdAndStatus ==
    \A i \in Conns :
        conns[i].resp.code = 201
        => /\ conns[i].resp.body.id = "pay_12345"
           /\ conns[i].resp.body.status = "pending"

\* C3 witness: a request that carried its own id and status was answered 201.
ServerAssignsIdAndStatusWitness ==
    \E i \in Conns :
        /\ conns[i].resp.code = 201
        /\ conns[i].req.body.obj.id = Str("pay_evil")
        /\ conns[i].req.body.obj.status = Str("succeeded")

\* C4: a request whose method is not the handler's (POST for create-payment,
\* GET for get-payment-status) is answered 405 "Invalid method"; its body was
\* not decoded and nothing was logged for it.
WrongMethodRejected ==
    \A i \in Conns :
        (\/ CreateHandled(i) /\ conns[i].req.method # "POST"
         \/ GetHandled(i) /\ conns[i].req.method # "GET")
        => /\ conns[i].resp = MethodMessage
           /\ conns[i].payment = ZeroPayment
           /\ conns[i].err = NoErr
           /\ \A k \in 1..Len(log) : log[k].req # conns[i].id

\* C4 witness: a PUT to create-payment with a body that a POST would have
\* accepted has been answered 405.
WrongMethodRejectedWitness ==
    \E i \in Conns :
        /\ CreateHandled(i)
        /\ conns[i].req.method = "PUT"
        /\ conns[i].req.body.lead = "object"
        /\ conns[i].req.body.obj.amount = Num(100)
        /\ conns[i].req.body.obj.currency = Str("RUB")
        /\ conns[i].resp.code = 405

\* C5: a POST to create-payment whose body decodes successfully with
\* amount > 0 and an empty or absent currency is answered 400
\* "Currency is required".
CurrencyRequired ==
    \A i \in Conns :
        (/\ CreateHandled(i)
         /\ conns[i].req.method = "POST"
         /\ DecodesOK(i)
         /\ Decoded(i).payment.Amount > 0
         /\ Decoded(i).payment.Currency = "")
        => conns[i].resp = CurrencyMessage

\* C5 witness: a request with a positive amount and no currency key has been
\* answered with the currency message.
CurrencyRequiredWitness ==
    \E i \in Conns :
        /\ CreateHandled(i)
        /\ conns[i].req.method = "POST"
        /\ conns[i].req.body.lead = "object"
        /\ conns[i].req.body.obj.amount = Num(100050)
        /\ conns[i].req.body.obj.currency = Absent
        /\ conns[i].resp = CurrencyMessage

\* C6: whatever requests came before, every GET to get-payment-status is
\* answered 200 with the fixed Payment pay_12345 / 1000.5 / RUB / succeeded.
StatusIsFixed ==
    \A i \in Conns :
        (GetHandled(i) /\ conns[i].req.method = "GET")
        => conns[i].resp =
              [code |-> 200, ctype |-> "application/json",
               body |-> [id |-> "pay_12345", amount |-> 100050,
                         currency |-> "RUB", status |-> "succeeded"]]

\* C6 witness: a GET has been answered after a payment of 1.00 was created.
StatusIsFixedWitness ==
    \E i \in Conns :
        /\ GetHandled(i)
        /\ conns[i].req.method = "GET"
        /\ conns[i].resp.code = 200
        /\ \E k \in 1..Len(log) :
              /\ log[k].msg = "Payment created"
              /\ log[k].Amount = 100
              /\ log[k].req < conns[i].id

\* C7: create-payment answers 201 exactly when the request is a POST whose
\* body decodes successfully with amount > 0 and a non-empty currency; the
\* 201 response is application/json and its amount, currency and description
\* are those of the request body.
CreatedIffValid ==
    \A i \in Conns :
        CreateHandled(i)
        => /\ conns[i].resp.code = 201
              <=> /\ conns[i].req.method = "POST"
                  /\ DecodesOK(i)
                  /\ Decoded(i).payment.Amount > 0
                  /\ Decoded(i).payment.Currency # ""
           /\ conns[i].resp.code = 201
              => LET o == conns[i].req.body.obj
                     b == conns[i].resp.body
                 IN /\ conns[i].resp.ctype = "application/json"
                    /\ b.amount = o.amount.n /\ b.amount > 0
                    /\ b.currency = o.currency.s /\ b.currency # ""
                    /\ IF o.description = Absent
                       THEN "description" \notin DOMAIN b
                       ELSE b.description = o.description.s

\* C7 witness: a request with amount 1000.50, currency RUB and a description
\* has been answered 201.
CreatedIffValidWitness ==
    \E i \in Conns :
        /\ CreateHandled(i)
        /\ conns[i].resp.code = 201
        /\ conns[i].req.body.obj.amount = Num(100050)
        /\ conns[i].req.body.obj.description = Str("note")

\* C8: every error response is one of the four fixed messages with its own
\* status; a decode error's detail is in the log and not in the response.
ErrorsAreFixedMessages ==
    \A i \in Conns :
        (Done(i) /\ conns[i].resp.code \notin {200, 201})
        => /\ conns[i].resp \in
                {MethodMessage, JSONMessage, AmountMessage, CurrencyMessage}
           /\ conns[i].err # NoErr
              => /\ conns[i].resp.body.line \notin DecodeErrors
                 /\ \E k \in 1..Len(log) :
                       /\ log[k].req = conns[i].id
                       /\ log[k].msg = "Error decoding JSON"
                       /\ log[k].err = conns[i].err

\* C8 witness: a request whose body failed to decode has been answered.
ErrorsAreFixedMessagesWitness ==
    \E i \in Conns :
        /\ Done(i)
        /\ conns[i].err = ErrSyntax
        /\ conns[i].resp.code = 400

\* C9: a request answered 201 has exactly one "Payment created" line, written
\* before the response; a request rejected by validation has no line; a
\* request rejected for a decode failure has exactly one decode-error line
\* and no creation line.
LogLinesPerRequest ==
    \A i \in Conns :
        LET created == Lines(conns[i].id, "Payment created")
            failed == Lines(conns[i].id, "Error decoding JSON")
        IN /\ conns[i].resp.code = 201 => created = 1 /\ failed = 0
           /\ conns[i].pc = "respond"
              => created = 1 /\ failed = 0 /\ conns[i].resp = NoResp
           /\ conns[i].resp \in {AmountMessage, CurrencyMessage}
              => created = 0 /\ failed = 0
           /\ conns[i].resp = JSONMessage => created = 0 /\ failed = 1

\* C9 witness: a second creation has logged its line and not yet written its
\* response.
LogLinesPerRequestWitness ==
    \E i \in Conns :
        /\ conns[i].pc = "respond"
        /\ conns[i].id = 2
        /\ Len(log) = 2
        /\ log[1].msg = "Payment created"
        /\ log[2].req = 2

\* C10: two requests handled at the same time that are the same request have
\* the same response, whatever the interleaving of their handlers and of the
\* other requests.
ResponseDependsOnRequestOnly ==
    \A i, j \in Conns :
        (Done(i) /\ Done(j) /\ conns[i].req = conns[j].req)
        => conns[i].resp = conns[j].resp

\* C10 witness: two equal creation requests were in flight together and both
\* have been answered 201, the later one first.
ResponseDependsOnRequestOnlyWitness ==
    \E i, j \in Conns :
        /\ i # j
        /\ Done(i) /\ Done(j)
        /\ conns[i].req = conns[j].req
        /\ conns[i].resp.code = 201
        /\ conns[i].id < conns[j].id
        /\ Len(log) >= 2
        /\ log[1].req = conns[j].id

====
